---------------------------- MODULE Spec2Model ----------------------------
(***************************************************************************)
(* A model of arxiv.py: the relevance scorer title_relevance and the       *)
(* fetch / parse / score / sort / print pipeline of main.                  *)
(*                                                                         *)
(* Strings are sequences of one-character strings, so that lower(),        *)
(* split(), slicing and re.search are computed character by character.     *)
(* A float that is the quotient of two small integers is kept as the       *)
(* reduced fraction [num, den] with den > 0: distinct fractions of this    *)
(* size are distinct doubles and compare as the fractions do.              *)
(***************************************************************************)
EXTENDS Integers, Sequences, FiniteSets, TLC

VARIABLES
    pc,        \* position of the run: main's statement, or the scorer call
    exc,       \* the unhandled exception that ended the run, or "none"
    verbose,   \* args.keywords
    feed,      \* what the server holds: the entries a successful fetch+parse yields
    requests,  \* number of urlopen calls issued so far
    data,      \* main's data: the bytes read, "unread" before
    page,      \* main's page: [entries |-> ...] once parsed
    articles,  \* main's articles list
    i,         \* index of the scoring loop (line 103)
    j,         \* index of the printing loop (line 107)
    out,       \* the lines printed to standard output, in order
    title,     \* the scorer call's first argument
    keywords,  \* the scorer call's second argument (a dict, in iteration order)
    result     \* what the scorer call returned or raised

vars == <<pc, exc, verbose, feed, requests, data, page, articles, i, j, out,
          title, keywords, result>>

----------------------------------------------------------------------------
(* Bounds of the model *)

MaxTitleLen == 3
MaxKeywords == 2
MaxEntries == 3

----------------------------------------------------------------------------
(* Characters and str methods *)

UpperChars == <<"A","B","C","D","E","F","G","H","I","J","K","L","M",
                "N","O","P","Q","R","S","T","U","V","W","X","Y","Z">>
LowerChars == <<"a","b","c","d","e","f","g","h","i","j","k","l","m",
                "n","o","p","q","r","s","t","u","v","w","x","y","z">>
DigitChars == <<"0","1","2","3","4","5","6","7","8","9">>

Range(s) == {s[k] : k \in 1..Len(s)}

\* str.lower() on one character
LowerChar(c) ==
    IF \E k \in 1..Len(UpperChars) : UpperChars[k] = c
    THEN LowerChars[CHOOSE k \in 1..Len(UpperChars) : UpperChars[k] = c]
    ELSE c

\* str.lower(): every character lowered, whatever the string is used for
lower(s) == [k \in 1..Len(s) |-> LowerChar(s[k])]

\* the characters str.split() treats as separators
IsSpace(c) == c \in {" ", "\t", "\n"}

\* the characters the regular-expression class \w holds
IsWord(c) == c \in Range(UpperChars) \cup Range(LowerChars) \cup Range(DigitChars) \cup {"_"}

\* str.split() with no argument: the maximal runs of non-whitespace characters
RECURSIVE SplitFrom(_, _, _, _)
SplitFrom(s, k, cur, acc) ==
    IF k > Len(s)
    THEN IF cur = <<>> THEN acc ELSE Append(acc, cur)
    ELSE IF IsSpace(s[k])
         THEN SplitFrom(s, k + 1, <<>>, IF cur = <<>> THEN acc ELSE Append(acc, cur))
         ELSE SplitFrom(s, k + 1, Append(cur, s[k]), acc)

split(s) == SplitFrom(s, 1, <<>>, <<>>)

----------------------------------------------------------------------------
(* re.search, for the pattern language the keyword table is written in:    *)
(* literal characters and the escapes \b (word boundary), \B (not a word   *)
(* boundary) and \\ (a literal backslash).                                 *)

\* the pattern string compiled to a sequence of atoms (patterns ending in a
\* lone backslash, which re rejects, are not among the inputs)
RECURSIVE CompileFrom(_, _)
CompileFrom(p, k) ==
    IF k > Len(p) THEN <<>>
    ELSE IF p[k] = "\\" /\ k < Len(p)
         THEN (CASE p[k + 1] = "b" -> <<[kind |-> "boundary"]>>
                 [] p[k + 1] = "B" -> <<[kind |-> "notboundary"]>>
                 [] OTHER -> <<[kind |-> "lit", ch |-> p[k + 1]]>>)
              \o CompileFrom(p, k + 2)
         ELSE <<[kind |-> "lit", ch |-> p[k]]>> \o CompileFrom(p, k + 1)

re_compile(p) == CompileFrom(p, 1)

\* position pos (0..Len(s)) of s lies between a \w character and a non-\w one
AtBoundary(s, pos) ==
    LET before == pos >= 1 /\ IsWord(s[pos])
        after  == pos < Len(s) /\ IsWord(s[pos + 1])
    IN  before # after

\* the atoms from index k on match s starting at position pos
RECURSIVE MatchAt(_, _, _, _)
MatchAt(atoms, k, s, pos) ==
    IF k > Len(atoms) THEN TRUE
    ELSE CASE atoms[k].kind = "lit" ->
                 /\ pos < Len(s)
                 /\ s[pos + 1] = atoms[k].ch
                 /\ MatchAt(atoms, k + 1, s, pos + 1)
           [] atoms[k].kind = "boundary" ->
                 AtBoundary(s, pos) /\ MatchAt(atoms, k + 1, s, pos)
           [] atoms[k].kind = "notboundary" ->
                 \* CPython up to 3.13: \B never matches in the empty string
                 Len(s) > 0 /\ ~AtBoundary(s, pos) /\ MatchAt(atoms, k + 1, s, pos)

\* re.search(p, s) is not None
re_search(p, s) == \E pos \in 0..Len(s) : MatchAt(re_compile(p), 1, s, pos)

----------------------------------------------------------------------------
(* Floats that are quotients of small integers *)

Abs(n) == IF n < 0 THEN -n ELSE n

RECURSIVE Gcd(_, _)
Gcd(a, b) == IF b = 0 THEN a ELSE Gcd(b, a % b)

\* float(a) / b for b > 0: the reduced fraction
FloatDiv(a, b) ==
    LET g == Gcd(Abs(a), b)
    IN  [num |-> a \div g, den |-> b \div g]

Float(n) == [num |-> n, den |-> 1]

FloatLess(x, y) == x.num * y.den < y.num * x.den
FloatLeq(x, y) == x.num * y.den <= y.num * x.den

----------------------------------------------------------------------------
(* title_relevance (lines 10-32) *)

\* one iteration of the loop at line 28 on keyword number k
RelevanceStepSubtract(ttl, kws, k, relevance, relevant_keywords) ==
    IF re_search(lower(kws[k].pattern), lower(ttl))
    THEN [relevance |-> relevance - kws[k].weight,
          relevant_keywords |-> Append(relevant_keywords, kws[k].pattern)]
    ELSE [relevance |-> relevance, relevant_keywords |-> relevant_keywords]

RelevanceStep(ttl, kws, k, relevance, relevant_keywords) ==
    IF re_search(lower(kws[k].pattern), lower(ttl))
    THEN [relevance |-> relevance + kws[k].weight,
          relevant_keywords |-> Append(relevant_keywords, kws[k].pattern)]
    ELSE [relevance |-> relevance, relevant_keywords |-> relevant_keywords]

\* the loop of lines 28-31 from keyword number k on
RECURSIVE RelevanceLoop(_, _, _, _, _)
RelevanceLoop(ttl, kws, k, relevance, relevant_keywords) ==
    IF k > Len(kws)
    THEN [relevance |-> relevance, relevant_keywords |-> relevant_keywords]
    ELSE LET s == RelevanceStep(ttl, kws, k, relevance, relevant_keywords)
         IN  RelevanceLoop(ttl, kws, k + 1, s.relevance, s.relevant_keywords)

\* the call: the returned pair, or the exception line 32 raises
title_relevance(ttl, kws) ==
    LET acc == RelevanceLoop(ttl, kws, 1, 0, <<>>)
        n   == Len(split(ttl))
    IN  IF n = 0
        THEN [raised |-> TRUE, exception |-> "ZeroDivisionError"]
        ELSE [raised |-> FALSE,
              score |-> FloatDiv(acc.relevance, n),
              matched |-> acc.relevant_keywords]


----------------------------------------------------------------------------
(* main (lines 35-114) *)

\* the keyword table of lines 45-88, in its order: the entries whose
\* patterns are written over the letters of the sample titles below
KeywordTable ==
    << [pattern |-> <<"\\","b","s","m","g","\\","b">>, weight |-> 10],
       [pattern |-> <<"\\","b","i","s","m","\\","b">>, weight |-> 8],
       [pattern |-> <<"s","u","b">>, weight |-> 4],
       [pattern |-> <<"g","a","s">>, weight |-> 2] >>

\* the number of characters line 101 cuts from the front of entry['id']
IdPrefixLen == 21

\* the threshold of line 108, 0.7, as a fraction
ThresholdNum == 7
ThresholdDen == 10
Threshold == [num |-> ThresholdNum, den |-> ThresholdDen]

\* the placeholder score of line 101
Placeholder == Float(-1)

\* one element of the list built at lines 101-102: [-1, id[21:], title, []]
NewArticle(entry) ==
    [score |-> Placeholder,
     id |-> SubSeq(entry.id, IdPrefixLen + 1, Len(entry.id)),
     title |-> entry.title,
     matched |-> <<>>]

\* articles.sort(key=lambda article: article[0], reverse=False): list.sort is
\* stable, an element goes after every element whose key is not greater
RECURSIVE InsertUnstable(_, _)
InsertUnstable(sorted, a) ==
    IF sorted = <<>> THEN <<a>>
    ELSE IF FloatLess(sorted[Len(sorted)].score, a.score)
         THEN Append(sorted, a)
         ELSE Append(InsertUnstable(SubSeq(sorted, 1, Len(sorted) - 1), a),
                     sorted[Len(sorted)])

RECURSIVE Insert(_, _)
Insert(sorted, a) ==
    IF sorted = <<>> THEN <<a>>
    ELSE IF FloatLeq(sorted[Len(sorted)].score, a.score)
         THEN Append(sorted, a)
         ELSE Append(Insert(SubSeq(sorted, 1, Len(sorted) - 1), a),
                     sorted[Len(sorted)])

RECURSIVE SortFrom(_, _, _)
SortFrom(arts, k, sorted) ==
    IF k > Len(arts) THEN sorted
    ELSE SortFrom(arts, k + 1, Insert(sorted, arts[k]))

sort_by_score(arts) == SortFrom(arts, 1, <<>>)

\* the test of line 108: article[0] > 0.7
AboveThresholdOrEqual(article) == FloatLeq(Threshold, article.score)

AboveThreshold(article) == FloatLess(Threshold, article.score)

\* "{0:.1f}".format(x) for x >= 0, as the number of tenths printed: the
\* nearest tenth, and the even one when x is exactly half way (a quotient
\* with reduced denominator 4, which a double holds exactly)
Format1f(x) ==
    LET n10 == 10 * x.num
        q   == n10 \div x.den
        r   == n10 - q * x.den
    IN  IF 2 * r < x.den THEN q
        ELSE IF 2 * r > x.den THEN q + 1
        ELSE IF q % 2 = 0 THEN q ELSE q + 1

\* the line printed at lines 110-111 (verbose) or 113-114 (compact)
FormatLine(article, flag) ==
    IF flag
    THEN <<Format1f(article.score), article.id, article.title, article.matched>>
    ELSE <<Format1f(article.score), article.id, article.title>>

\* one iteration of the loop at line 107: standard output afterwards
PrintStepVerboseUnfiltered(printed, article, flag) ==
    IF flag
    THEN Append(printed, FormatLine(article, TRUE))
    ELSE IF AboveThreshold(article)
         THEN Append(printed, FormatLine(article, FALSE))
         ELSE printed

PrintStep(printed, article, flag) ==
    IF AboveThreshold(article)
    THEN IF flag
         THEN Append(printed, FormatLine(article, TRUE))
         ELSE Append(printed, FormatLine(article, FALSE))
    ELSE printed

----------------------------------------------------------------------------
(* The inputs of the model *)

\* all strings over alphabet of at most n characters
StringsUpTo(alphabet, n) == UNION {[1..m -> alphabet] : m \in 0..n}

\* the sequences without repetition of at most n elements of S
RECURSIVE DistinctSeqs(_, _)
DistinctSeqs(S, n) ==
    IF n = 0 THEN {<<>>}
    ELSE LET shorter == DistinctSeqs(S, n - 1)
         IN  shorter \cup {Append(q, x) : q \in {t \in shorter : Len(t) = n - 1},
                                          x \in S}

\* titles given to the scorer
TitleChars == {"b", "B", " "}
Titles == StringsUpTo(TitleChars, MaxTitleLen)

\* keyword dicts given to the scorer: patterns are the keys, so no pattern
\* occurs twice; the weights are integers
PatternPool == { <<"b">>, <<"B">>, <<"\\","b","b">>, <<"\\","B","b">> }
WeightPool == {-2, 2, 4}
KeywordDicts ==
    {d \in DistinctSeqs([pattern : PatternPool, weight : WeightPool], MaxKeywords) :
        \A m, n \in 1..Len(d) : m # n => d[m].pattern # d[n].pattern}

\* the front of an entry's id, "http://arxiv.org/abs/"
ArxivAbs == <<"h","t","t","p",":","/","/","a","r","x","i","v",".","o","r","g","/","a","b","s","/">>

\* titles of feed entries
SampleTitles ==
    { <<"g","a","s">>,
      <<"S","M","G"," ","g","a","s">>,
      <<"a"," ","g","a","s"," ","b">>,
      <<"s","u","b"," ","g","a","s"," ","a">>,
      <<"p","r","i","s","m">>,
      <<>>,
      <<"s","m","g"," ","s","u","b"," ","a"," ","a"," ","a"," ","a"," ","a"," ","a"," ","a"," ","a"," ","a"," ","a"," ","a"," ","a"," ","a"," ","a"," ","a"," ","a"," ","a"," ","a">> }

\* the feeds: at most MaxEntries entries, the k-th with the identifier k
Feeds ==
    {[k \in 1..Len(ts) |-> [id |-> ArxivAbs \o <<DigitChars[k + 1]>>, title |-> ts[k]]] :
        ts \in StringsUpTo(SampleTitles, MaxEntries)}

----------------------------------------------------------------------------
(* The run of main *)

Init ==
    /\ pc = "fetch"
    /\ exc = "none"
    /\ verbose \in BOOLEAN
    /\ feed \in Feeds
    /\ requests = 0
    /\ data = "unread"
    /\ page = [entries |-> <<>>]
    /\ articles = <<>>
    /\ i = 0
    /\ j = 0
    /\ out = <<>>
    /\ title = <<>>
    /\ keywords = <<>>
    /\ result = [raised |-> FALSE, score |-> Float(0), matched |-> <<>>]

\* line 97: urllib.request.urlopen(url).read() returns the bytes or raises
FetchRetry ==
    /\ pc = "fetch"
    /\ requests' = requests + 1
    /\ \/ /\ data' = feed
          /\ pc' = "parse"
          /\ exc' = exc
       \/ /\ requests < 2
          /\ data' = data
          /\ pc' = "fetch"
          /\ exc' = exc
       \/ /\ data' = data
          /\ pc' = "error"
          /\ exc' = "URLError"
    /\ UNCHANGED <<verbose, feed, page, articles, i, j, out, title, keywords, result>>

Fetch ==
    /\ pc = "fetch"
    /\ requests' = requests + 1
    /\ \/ /\ data' = feed
          /\ pc' = "parse"
          /\ exc' = exc
       \/ /\ data' = data
          /\ pc' = "error"
          /\ exc' = "URLError"
    /\ UNCHANGED <<verbose, feed, page, articles, i, j, out, title, keywords, result>>

\* line 98: feedparser.parse(data) returns the page or raises
Parse ==
    /\ pc = "parse"
    /\ \/ /\ page' = [entries |-> data]
          /\ pc' = "build"
          /\ exc' = exc
       \/ /\ page' = page
          /\ pc' = "error"
          /\ exc' = "ParseError"
    /\ UNCHANGED <<verbose, feed, requests, data, articles, i, j, out,
                   title, keywords, result>>

\* lines 101-102
Build ==
    /\ pc = "build"
    /\ articles' = [k \in 1..Len(page.entries) |-> NewArticle(page.entries[k])]
    /\ i' = 1
    /\ pc' = "score"
    /\ UNCHANGED <<exc, verbose, feed, requests, data, page, j, out,
                   title, keywords, result>>

\* lines 103-104, one iteration: the article gets its score and keywords, or
\* the scorer's exception ends the run
ScoreArticleSkipFailed ==
    /\ pc = "score"
    /\ i <= Len(articles)
    /\ LET r == title_relevance(articles[i].title, KeywordTable)
       IN  IF r.raised
           THEN /\ exc' = r.exception
                /\ articles' = articles
           ELSE /\ articles' = [articles EXCEPT ![i].score = r.score,
                                                ![i].matched = r.matched]
                /\ exc' = exc
    /\ i' = i + 1
    /\ pc' = pc
    /\ UNCHANGED <<verbose, feed, requests, data, page, j, out,
                   title, keywords, result>>

ScoreArticle ==
    /\ pc = "score"
    /\ i <= Len(articles)
    /\ LET r == title_relevance(articles[i].title, KeywordTable)
       IN  IF r.raised
           THEN /\ pc' = "error"
                /\ exc' = r.exception
                /\ UNCHANGED <<articles, i>>
           ELSE /\ articles' = [articles EXCEPT ![i].score = r.score,
                                                ![i].matched = r.matched]
                /\ i' = i + 1
                /\ UNCHANGED <<pc, exc>>
    /\ UNCHANGED <<verbose, feed, requests, data, page, j, out,
                   title, keywords, result>>

\* line 105, reached when the loop of line 103 is exhausted
Sort ==
    /\ pc = "score"
    /\ i > Len(articles)
    /\ articles' = sort_by_score(articles)
    /\ j' = 1
    /\ pc' = "print"
    /\ UNCHANGED <<exc, verbose, feed, requests, data, page, i, out,
                   title, keywords, result>>

\* lines 107-114, one iteration
PrintArticle ==
    /\ pc = "print"
    /\ j <= Len(articles)
    /\ out' = PrintStep(out, articles[j], verbose)
    /\ j' = j + 1
    /\ UNCHANGED <<pc, exc, verbose, feed, requests, data, page, articles, i,
                   title, keywords, result>>

\* the loop of line 107 is exhausted: main returns
Return ==
    /\ pc = "print"
    /\ j > Len(articles)
    /\ pc' = "done"
    /\ UNCHANGED <<exc, verbose, feed, requests, data, page, articles, i, j, out,
                   title, keywords, result>>

Next == Fetch \/ Parse \/ Build \/ ScoreArticle \/ Sort \/ PrintArticle \/ Return

Spec == Init /\ [][Next]_vars

----------------------------------------------------------------------------
(* One call of title_relevance on arbitrary arguments *)

InitScorer ==
    /\ pc = "call"
    /\ exc = "none"
    /\ title \in Titles
    /\ keywords \in KeywordDicts
    /\ result = [raised |-> FALSE, score |-> Float(0), matched |-> <<>>]
    /\ verbose = FALSE
    /\ feed = <<>>
    /\ requests = 0
    /\ data = "unread"
    /\ page = [entries |-> <<>>]
    /\ articles = <<>>
    /\ i = 0
    /\ j = 0
    /\ out = <<>>

Call ==
    /\ pc = "call"
    /\ result' = title_relevance(title, keywords)
    /\ pc' = IF result'.raised THEN "raised" ELSE "returned"
    /\ exc' = IF result'.raised THEN result'.exception ELSE exc
    /\ UNCHANGED <<verbose, feed, requests, data, page, articles, i, j, out,
                   title, keywords>>

NextScorer == Call

SpecScorer == InitScorer /\ [][NextScorer]_vars

----------------------------------------------------------------------------
(* What the properties below are stated with *)

\* re.search(p, s, re.IGNORECASE) is not None: the pattern as written, its
\* literal characters compared without regard to case
RECURSIVE MatchAtIgnoreCase(_, _, _, _)
MatchAtIgnoreCase(atoms, k, s, pos) ==
    IF k > Len(atoms) THEN TRUE
    ELSE CASE atoms[k].kind = "lit" ->
                 /\ pos < Len(s)
                 /\ LowerChar(s[pos + 1]) = LowerChar(atoms[k].ch)
                 /\ MatchAtIgnoreCase(atoms, k + 1, s, pos + 1)
           [] atoms[k].kind = "boundary" ->
                 AtBoundary(s, pos) /\ MatchAtIgnoreCase(atoms, k + 1, s, pos)
           [] atoms[k].kind = "notboundary" ->
                 Len(s) > 0 /\ ~AtBoundary(s, pos)
                            /\ MatchAtIgnoreCase(atoms, k + 1, s, pos)

re_search_ignorecase(p, s) ==
    \E pos \in 0..Len(s) : MatchAtIgnoreCase(re_compile(p), 1, s, pos)

\* the keyword's pattern matches the lowercased title
PatternMatches(pattern, ttl) == re_search_ignorecase(pattern, lower(ttl))

\* the number of whitespace-delimited tokens: the positions where one starts
TokenCount(s) ==
    Cardinality({k \in 1..Len(s) : ~IsSpace(s[k]) /\ (k = 1 \/ IsSpace(s[k - 1]))})

\* the sum of the weights of the keywords at the indices in S
RECURSIVE SumWeights(_, _)
SumWeights(kws, S) ==
    IF S = {} THEN 0
    ELSE LET k == CHOOSE x \in S : TRUE
         IN  kws[k].weight + SumWeights(kws, S \ {k})

MatchingIndices(kws, ttl) == {k \in 1..Len(kws) : PatternMatches(kws[k].pattern, ttl)}

\* the patterns of the keywords at the indices in S, in the dict's order
RECURSIVE PatternsAt(_, _, _)
PatternsAt(kws, S, k) ==
    IF k > Len(kws) THEN <<>>
    ELSE (IF k \in S THEN <<kws[k].pattern>> ELSE <<>>) \o PatternsAt(kws, S, k + 1)

\* the same with the test the scorer applies: the lowercased pattern string
\* searched for in the lowercased title
LoweredMatchingIndices(kws, ttl) ==
    {k \in 1..Len(kws) : re_search(lower(kws[k].pattern), lower(ttl))}

Returned == pc = "returned"
Called == pc \in {"returned", "raised"}

\* the lines of out that show the article with identifier id
LinesOf(id) == {k \in 1..Len(out) : out[k][2] = id}

\* the article a line shows
ArticleOf(line) == articles[CHOOSE k \in 1..Len(articles) : articles[k].id = line[2]]

\* the place in the feed of the entry a line shows
FeedPlace(line) == CHOOSE k \in 1..Len(feed) : feed[k].id = ArxivAbs \o line[2]

IsZero(x) == x.num = 0
ExceedsSevenTenths(x) == 10 * x.num > 7 * x.den

----------------------------------------------------------------------------
(* The scorer *)

\* C1: for a title with at least one token and any keyword dict, the score
\* is the sum of the weights of exactly the keywords whose pattern matches
\* the lowercased title, divided by the number of tokens of the title.
C1_ScoreIsWeightedSumOverTokens ==
    (Returned /\ TokenCount(title) >= 1) =>
        result.score = FloatDiv(SumWeights(keywords, MatchingIndices(keywords, title)),
                                TokenCount(title))

\* Supporting C1: the same holds when "matches" is the scorer's own test.
ScoreIsWeightedSumOfLoweredMatches ==
    Called =>
        /\ Returned <=> TokenCount(title) >= 1
        /\ Returned =>
             result.score =
                FloatDiv(SumWeights(keywords, LoweredMatchingIndices(keywords, title)),
                         TokenCount(title))

\* C2: for a title with no token the scorer returns score 0.0 and an empty
\* matched list instead of failing.
C2_NoTokenTitleScoresZero ==
    (Called /\ TokenCount(title) = 0) =>
        /\ Returned
        /\ IsZero(result.score)
        /\ result.matched = <<>>

\* C3: for any title and any keyword dict none of whose patterns matches
\* the title, the scorer returns score 0.0 and an empty matched list.
C3_NoMatchScoresZero ==
    (Called /\ MatchingIndices(keywords, title) = {}) =>
        /\ Returned
        /\ IsZero(result.score)
        /\ result.matched = <<>>

\* C6 as claimed: whatever the integer weights, the returned score is >= 0.
C6_ScoreNonNegative ==
    Returned => result.score.num >= 0

\* C6: for a title with at least one token and a keyword dict whose weights
\* are all non-negative, the returned score is >= 0.
C6_ScoreNonNegativeForNonNegativeWeights ==
    (Returned /\ \A k \in 1..Len(keywords) : keywords[k].weight >= 0) =>
        FloatLeq(Float(0), result.score)

C6_Witness ==
    /\ Returned
    /\ Len(keywords) = MaxKeywords
    /\ \A k \in 1..Len(keywords) : keywords[k].weight >= 0
    /\ result.matched # <<>>
    /\ FloatLess(Float(0), result.score)

\* C9: the matched list holds exactly the keywords whose pattern matches
\* the title, each once, as the original pattern strings, in the dict's
\* iteration order.
C9_MatchedAreTheMatchingPatternsInOrder ==
    Returned =>
        result.matched = PatternsAt(keywords, MatchingIndices(keywords, title), 1)

\* Supporting C9: the same holds when "matches" is the scorer's own test.
MatchedAreTheLoweredMatchesInOrder ==
    Returned =>
        result.matched = PatternsAt(keywords, LoweredMatchingIndices(keywords, title), 1)

----------------------------------------------------------------------------
(* The run of main *)

Done == pc = "done"

\* the entries of a sequence of lines without the field only verbose lines have
Shown(lines) == [k \in 1..Len(lines) |-> SubSeq(lines[k], 1, 3)]

\* the whole of standard output of a run over scored and sorted articles
RECURSIVE PrintFrom(_, _, _, _)
PrintFrom(arts, k, flag, printed) ==
    IF k > Len(arts) THEN printed
    ELSE PrintFrom(arts, k + 1, flag, PrintStep(printed, arts[k], flag))

\* the articles of a feed once every one is scored, when none fails
ScoredArticles(entries) ==
    [k \in 1..Len(entries) |->
        LET r == title_relevance(entries[k].title, KeywordTable)
            a == NewArticle(entries[k])
        IN  [a EXCEPT !.score = r.score, !.matched = r.matched]]

\* standard output of a complete run on feed f in the given mode
RunOutput(f, flag) == PrintFrom(sort_by_score(ScoredArticles(f)), 1, flag, <<>>)

\* C4: the printed articles are exactly those with score > 0.7, each once
\* (an article with score 0.7 or less is not printed), in non-decreasing
\* order of score.
C4_PrintedAreThoseAboveThresholdAscending ==
    Done =>
        /\ \A k \in 1..Len(articles) :
              Cardinality(LinesOf(articles[k].id)) =
                  IF ExceedsSevenTenths(articles[k].score) THEN 1 ELSE 0
        /\ \A k \in 1..Len(out) : \E m \in 1..Len(articles) : articles[m].id = out[k][2]
        /\ \A p, q \in 1..Len(out) :
              p < q => FloatLeq(ArticleOf(out[p]).score, ArticleOf(out[q]).score)

C4_Witness ==
    /\ Done
    /\ \E k \in 1..Len(articles) :
          articles[k].score = [num |-> 7, den |-> 10] /\ LinesOf(articles[k].id) = {}
    /\ \E p, q \in 1..Len(out) :
          p < q /\ FloatLess(ArticleOf(out[p]).score, ArticleOf(out[q]).score)

\* C5: of two printed articles with equal score, the one earlier in the
\* feed is printed first.
C5_EqualScoresPrintedInFeedOrder ==
    Done =>
        \A p, q \in 1..Len(out) :
            (p < q /\ ArticleOf(out[p]).score = ArticleOf(out[q]).score)
                => FeedPlace(out[p]) < FeedPlace(out[q])

C5_Witness ==
    /\ Done
    /\ \E p, q \in 1..Len(out) :
          /\ p < q
          /\ ArticleOf(out[p]).score = ArticleOf(out[q]).score
          /\ ArticleOf(out[p]).title # ArticleOf(out[q]).title
    /\ \E k \in 1..Len(feed) : feed[k].id # ArxivAbs \o articles[k].id

\* C7: on the same feed a run in verbose mode and a run in compact mode
\* print the same number of lines, for the same articles in the same order,
\* and neither prints an article whose score is 0.0.
C7_ModeChangesOnlyTheFormat ==
    Done =>
        LET inVerbose == RunOutput(feed, TRUE)
            inCompact == RunOutput(feed, FALSE)
        IN  /\ out = (IF verbose THEN inVerbose ELSE inCompact)
            /\ Shown(inVerbose) = Shown(inCompact)
            /\ \A k \in 1..Len(articles) :
                  IsZero(articles[k].score) =>
                     /\ \A m \in 1..Len(inVerbose) : inVerbose[m][2] # articles[k].id
                     /\ \A m \in 1..Len(inCompact) : inCompact[m][2] # articles[k].id

C7_Witness ==
    /\ Done
    /\ verbose
    /\ Len(out) >= 2
    /\ \E k \in 1..Len(articles) : IsZero(articles[k].score)
    /\ \E m \in 1..Len(out) : Len(out[m][4]) >= 2

\* C8: a run issues one fetch request and never a second; when the fetch
\* or the parse fails the run ends there, in an error state, with nothing
\* printed.
C8_OneFetchAndFailureEndsTheRun ==
    /\ requests <= 1
    /\ pc # "fetch" => requests = 1
    /\ exc \in {"URLError", "ParseError"} => (pc = "error" /\ out = <<>>)
    /\ pc = "error" => ~ENABLED Next

C8_Witness ==
    /\ pc = "error"
    /\ exc = "ParseError"
    /\ requests = 1
    /\ \E k \in 1..Len(feed) :
          ~title_relevance(feed[k].title, KeywordTable).raised
          /\ ExceedsSevenTenths(title_relevance(feed[k].title, KeywordTable).score)

\* C10: nothing is printed before every entry is scored and the list is
\* sorted; if scoring fails on an entry the run ends with nothing printed;
\* no printed article still has its placeholder score.
C10_NothingPrintedUntilAllScoredAndSorted ==
    /\ pc \in {"fetch", "parse", "build", "score"} => out = <<>>
    /\ exc = "ZeroDivisionError" => (pc = "error" /\ out = <<>>)
    /\ out # <<>> =>
          /\ i > Len(articles)
          /\ Len(articles) = Len(feed)
          /\ \A k \in 1..Len(articles) : articles[k].score # Placeholder
          /\ \A k \in 1..Len(articles) - 1 :
                FloatLeq(articles[k].score, articles[k + 1].score)
    /\ \A k \in 1..Len(out) : ArticleOf(out[k]).score # Placeholder

C10_Witness ==
    /\ pc = "error"
    /\ exc = "ZeroDivisionError"
    /\ \E k \in 1..Len(articles) : ExceedsSevenTenths(articles[k].score)
    /\ \E k \in 1..Len(articles) : articles[k].score = Placeholder
                                   /\ articles[k].title # <<>>

\* Supporting C6: with the table of lines 45-88 every stored score is >= 0
\* once the scoring loop is over.
StoredScoresNonNegative ==
    pc \in {"print", "done"} =>
        \A k \in 1..Len(articles) : FloatLeq(Float(0), articles[k].score)

============================================================================
